---- MODULE Spec2Model ----
(***************************************************************************)
(* Model of the meme-text plugin (src/main.py): the parameter resolver     *)
(* (_parse_args, _normalize_position), the placement and stroke choice of  *)
(* _add_text_to_image, the request handler on_message with its temp file,  *)
(* and the periodic sweep (_cleanup_old_files, _cleanup_loop).             *)
(*                                                                         *)
(* TLA+ strings are ASCII, so the Chinese vocabulary of the source is      *)
(* written with these stand-ins (one string per source string):            *)
(*   colors   白色 white, 黑色 black, 红色 red, 黄色 yellow, 蓝色 blue,    *)
(*            绿色 green, 粉色 pink, 紫色 purple                           *)
(*   anchors  上左 top_left, 上中 top_center, 上右 top_right,              *)
(*            中左 center_left, 中 center, 中右 center_right,              *)
(*            下左 bottom_left, 下中 bottom_center, 下右 bottom_right      *)
(*   aliases  上 top, 下 bottom, 左上 left_top, 中上 center_top,           *)
(*            右上 right_top, 左中 left_center, 右中 right_center,         *)
(*            左下 left_bottom, 中下 center_bottom, 右下 right_bottom      *)
(*   sizes    小字体 small_font, 中字体 medium_font, 大字体 large_font     *)
(*   strokes  白色描边 white_stroke, 黑色描边 black_stroke                 *)
(* Python's None is the string "None".                                     *)
(***************************************************************************)
EXTENDS Integers, Sequences, FiniteSets, TLC

VARIABLES
    config,       \* the config dict handed to __init__ (raw option values)
    self,         \* the plugin's fields set by __init__
    parts,        \* the argument tokens of the last _parse_args call
    result,       \* the dict returned by the last _parse_args call
    img,          \* the arguments of the last _add_text_to_image call
    drawn,        \* what that call drew: origin, padding, fill, stroke
    now,          \* time.time() * 1000 truncated (request machine)
    req,          \* per request: handler position, inputs, temp file, effects
    temp_files,   \* the temp directory of the request machine: path -> bytes
    sweep_now,    \* time.time() in seconds (sweep machine)
    sweep_files,  \* the temp directory of the sweep machine: name -> mtime
    sweep_log     \* the last _cleanup_old_files pass: the removals that failed,
                  \* whether cleaned_count > 0, and the number of passes so far
                  \* modulo 2

vars == <<config, self, parts, result, img, drawn, now, req, temp_files,
          sweep_now, sweep_files, sweep_log>>

None == "None"

ParseVars == <<parts, result>>
DrawVars == <<img, drawn>>
ReqVars == <<now, req, temp_files>>
SweepVars == <<sweep_now, sweep_files, sweep_log>>

\* Each specification below drives one of the four machines (resolver, drawing,
\* requests, sweep) and leaves the others at these idle values.
\* No call made yet is <<>>; a call's arguments or result v is <<v>>.
ParseIdle == parts = <<>> /\ result = <<>>
DrawIdle == img = <<>> /\ drawn = <<>>

----------------------------------------------------------------------------
(* The vocabularies, src/main.py:31-81 *)

COLOR_MAP ==
    [c \in {"white", "black", "red", "yellow", "blue", "green", "pink", "purple"} |->
        CASE c = "white"  -> "#FFFFFF"
          [] c = "black"  -> "#000000"
          [] c = "red"    -> "#FF0000"
          [] c = "yellow" -> "#FFFF00"
          [] c = "blue"   -> "#0000FF"
          [] c = "green"  -> "#00FF00"
          [] c = "pink"   -> "#FF69B4"
          [] c = "purple" -> "#9400D3"]

\* (x, y) in hundredths of the image's width and height
POSITION_MAP ==
    [p \in {"top_left", "top_center", "top_right",
            "center_left", "center", "center_right",
            "bottom_left", "bottom_center", "bottom_right"} |->
        CASE p = "top_left"      -> <<15, 15>>
          [] p = "top_center"    -> <<50, 15>>
          [] p = "top_right"     -> <<85, 15>>
          [] p = "center_left"   -> <<15, 50>>
          [] p = "center"        -> <<50, 50>>
          [] p = "center_right"  -> <<85, 50>>
          [] p = "bottom_left"   -> <<15, 85>>
          [] p = "bottom_center" -> <<50, 85>>
          [] p = "bottom_right"  -> <<85, 85>>]

POSITION_ALIAS_MAP ==
    [a \in {"top", "bottom", "left_top", "center_top", "right_top",
            "left_center", "right_center", "left_bottom", "center_bottom",
            "right_bottom"} |->
        CASE a = "top"           -> "top_center"
          [] a = "bottom"        -> "bottom_center"
          [] a = "left_top"      -> "top_left"
          [] a = "center_top"    -> "top_center"
          [] a = "right_top"     -> "top_right"
          [] a = "left_center"   -> "center_left"
          [] a = "right_center"  -> "center_right"
          [] a = "left_bottom"   -> "bottom_left"
          [] a = "center_bottom" -> "bottom_center"
          [] a = "right_bottom"  -> "bottom_right"]

\* font size in hundredths of the image's width
SIZE_MAP ==
    [s \in {"small_font", "medium_font", "large_font"} |->
        CASE s = "small_font"  -> 5
          [] s = "medium_font" -> 8
          [] s = "large_font"  -> 12]

STROKE_MAP ==
    [s \in {"white_stroke", "black_stroke"} |->
        CASE s = "white_stroke" -> "#FFFFFF"
          [] s = "black_stroke" -> "#000000"]

----------------------------------------------------------------------------
(* The parameter resolver, src/main.py:184-221 *)

\* the fallback of a mutant that answers an alias instead of an anchor
NormalizeFallbackAlias(position) ==
    IF position \in DOMAIN POSITION_MAP THEN position
    ELSE IF position \in DOMAIN POSITION_ALIAS_MAP
         THEN POSITION_ALIAS_MAP[position]
         ELSE "bottom"

_normalize_position(position) ==
    IF position \in DOMAIN POSITION_MAP THEN position
    ELSE IF position \in DOMAIN POSITION_ALIAS_MAP
         THEN POSITION_ALIAS_MAP[position]
         ELSE "bottom_center"

\* " ".join(text_parts)
RECURSIVE Join(_)
Join(text_parts) ==
    IF text_parts = <<>> THEN ""
    ELSE IF Len(text_parts) = 1 THEN text_parts[1]
    ELSE text_parts[1] \o " " \o Join(Tail(text_parts))

\* a mutant of the loop body that stores a position token as written
ParsePartRawPosition(acc, part) ==
    IF part \in DOMAIN COLOR_MAP THEN [acc EXCEPT !.color = part]
    ELSE IF part \in DOMAIN SIZE_MAP THEN [acc EXCEPT !.size = part]
    ELSE IF part \in DOMAIN POSITION_MAP \/ part \in DOMAIN POSITION_ALIAS_MAP
    THEN [acc EXCEPT !.position = part]
    ELSE IF part \in DOMAIN STROKE_MAP THEN [acc EXCEPT !.stroke = part]
    ELSE [acc EXCEPT !.text_parts = Append(@, part)]

\* one turn of the loop of _parse_args over `part` (lines 203-218)
ParsePart(acc, part) ==
    IF part \in DOMAIN COLOR_MAP THEN [acc EXCEPT !.color = part]
    ELSE IF part \in DOMAIN SIZE_MAP THEN [acc EXCEPT !.size = part]
    ELSE IF part \in DOMAIN POSITION_MAP \/ part \in DOMAIN POSITION_ALIAS_MAP
    THEN [acc EXCEPT !.position = _normalize_position(part)]
    ELSE IF part \in DOMAIN STROKE_MAP THEN [acc EXCEPT !.stroke = part]
    ELSE [acc EXCEPT !.text_parts = Append(@, part)]

RECURSIVE ParseLoop(_, _)
ParseLoop(acc, ps) ==
    IF ps = <<>> THEN acc
    ELSE ParseLoop(ParsePart(acc, Head(ps)), Tail(ps))

ParseResult(acc) ==
    [text |-> Join(acc.text_parts), color |-> acc.color, size |-> acc.size,
     position |-> acc.position, stroke |-> acc.stroke]

ParseStart(s) ==
    [color |-> s.default_color, size |-> s.default_size,
     position |-> s.default_position, stroke |-> None, text_parts |-> <<>>]

\* A Python string is a sequence of pieces, each a run of whitespace (" ") or
\* a run of other characters. str.strip() drops the whitespace at both ends.
RECURSIVE Strip(_)
Strip(text) ==
    IF text = <<>> THEN text
    ELSE IF Head(text) = " " THEN Strip(Tail(text))
    ELSE IF text[Len(text)] = " " THEN Strip(SubSeq(text, 1, Len(text) - 1))
    ELSE text

\* str.split(): the maximal runs of non-whitespace, in order
RECURSIVE SplitFrom(_, _)
SplitFrom(text, word) ==
    IF text = <<>> THEN (IF word = "" THEN <<>> ELSE <<word>>)
    ELSE IF Head(text) = " "
         THEN (IF word = "" THEN <<>> ELSE <<word>>) \o SplitFrom(Tail(text), "")
         ELSE SplitFrom(Tail(text), word \o Head(text))

Split(text) == SplitFrom(text, "")

\* a mutant that reads the command positionally, as the usage line prints it:
\* the first token is the caption whatever it says
ParseArgsCaptionFirst(s, text) ==
    LET ps == Split(Strip(text))
    IN  IF ps = <<>> THEN ParseResult(ParseStart(s))
        ELSE ParseResult(ParseLoop(
                 [ParseStart(s) EXCEPT !.text_parts = <<Head(ps)>>], Tail(ps)))

\* _parse_args(text): parts = text.strip().split(), then the loop
_parse_args(s, text) == ParseResult(ParseLoop(ParseStart(s), Split(Strip(text))))

----------------------------------------------------------------------------
(* The plugin's construction, src/main.py:88-100 *)

\* dict.get(key, default); a config dict is a function on the keys it holds
Get(d, key, default) == IF key \in DOMAIN d THEN d[key] ELSE default

DEFAULT_STROKE_WIDTH == 2
DEFAULT_MAX_TEXT_LENGTH == 50
DEFAULT_CLEANUP_DAYS == 2

__init__(cfg) ==
    [command_prefix   |-> Get(cfg, "command_prefix", "meme_text"),
     default_color    |-> Get(cfg, "default_color", "white"),
     default_size     |-> Get(cfg, "default_size", "medium_font"),
     default_position |-> _normalize_position(Get(cfg, "default_position", "bottom")),
     auto_stroke      |-> Get(cfg, "auto_stroke", TRUE),
     stroke_width     |-> Get(cfg, "stroke_width", DEFAULT_STROKE_WIDTH),
     max_text_length  |-> Get(cfg, "max_text_length", DEFAULT_MAX_TEXT_LENGTH),
     cleanup_days     |-> Get(cfg, "cleanup_days", DEFAULT_CLEANUP_DAYS)]

\* a config dict that sets the prefix only, and a dict with one more option
BaseConfig == [command_prefix |-> "meme_text"]

With(d, key, value) ==
    [k \in DOMAIN d \cup {key} |-> IF k = key THEN value ELSE d[k]]

----------------------------------------------------------------------------
(* The request handler on_message, src/main.py:437-519.                     *)
(* A handler runs without interruption between two awaits, so each action   *)
(* below is the code from one await's return to the next await (or to the   *)
(* return). A plain-text reply is recorded when it is handed to event.send. *)

NumRequests == 2
MaxClock == 2
ReqMaxTextLength == 5

Requests == 1..NumRequests

\* no message yet, no temp file (<<>>), nothing sent (0; bytes are named by
\* the request that made them)
NoMessage == [prefixed |-> FALSE, body |-> <<>>, reply |-> "none"]

IdleRequest ==
    [pc |-> "idle", msg |-> NoMessage, log |-> <<>>, replies |-> <<>>,
     stopped |-> FALSE, temp_file |-> <<>>, sent |-> 0]

\* the reply and return of lines 449-456, 462-464, 467-469, 474-476, 482-484
\* and of the except clause, lines 515-517 with 519
Report(rq, entry, reply) ==
    [rq EXCEPT !.pc = "done",
               !.log = IF entry = None THEN @ ELSE Append(@, entry),
               !.replies = Append(@, reply),
               !.stopped = TRUE]

\* a mutant that lets a caption of any length through
ValidateNoLengthCheck(s, body) ==
    LET args_text == Strip(body)
    IN  IF args_text = <<>> THEN "usage"
        ELSE IF _parse_args(s, args_text).text = "" THEN "no_text"
        ELSE "ok"

\* lines 447-469: the checks made on the argument body before any I/O
Validate(s, body) ==
    LET args_text == Strip(body)
        args == _parse_args(s, args_text)
    IN  IF args_text = <<>> THEN "usage"
        ELSE IF args.text = "" THEN "no_text"
        ELSE IF Len(args.text) > s.max_text_length THEN "too_long"
        ELSE "ok"

\* lines 368-412: _get_reply_image_url up to its await; m.reply says whether
\* the event is an aiocqhttp event that carries a reply id
HasReplyId(m) == m.reply = "reply"

\* lines 439-476 up to the first await that is not a reply
OnMessageEnter(s, rq, m) ==
    LET got == [rq EXCEPT !.msg = m]
    IN  IF ~m.prefixed THEN [got EXCEPT !.pc = "done"]
        ELSE IF Validate(s, m.body) # "ok" THEN Report(got, None, Validate(s, m.body))
        ELSE IF ~HasReplyId(m) THEN Report(got, "locate_none", "no_image")
        ELSE [got EXCEPT !.pc = "locating", !.log = Append(@, "get_msg")]

\* lines 416-434 and 473-480: what get_msg answered decides the URL
UrlOf(answer) == IF answer = "image" THEN "url" ELSE None

OnGetMsgReturn(rq, answer) ==
    IF UrlOf(answer) = None THEN Report(rq, "locate_none", "no_image")
    ELSE [rq EXCEPT !.pc = "downloading",
                    !.log = @ \o <<"locate_ok", "download">>,
                    !.replies = Append(@, "processing")]

\* lines 231-240: the bytes _download_image returns, None on any failure
ImgDataOf(resp) ==
    IF resp \in {"png", "jpeg", "gif", "garbage"} THEN resp
    ELSE IF resp = "empty" THEN ""
    ELSE None

\* a mutant that stays in the download stage after a failed download
DownloadFailedRetry(rq) == [rq EXCEPT !.log = Append(@, "download_fail")]

\* lines 481-484
DownloadFailed(rq) == Report(rq, "download_fail", "download_failed")

\* lines 338-366: _process_image raises on bytes PIL cannot decode
ProcessRaises(img_data) == img_data = "garbage"

\* lines 343-366: the format _process_image answers for the decoded image
FormatOf(img_data) ==
    IF img_data = "gif" THEN "gif"
    ELSE IF img_data = "jpeg" THEN "jpg"
    ELSE "png"

\* line 502: the temp file's name, from the clock in ms and the format
TempFileName(t, img_format) == <<"meme", t, img_format>>

\* lines 486-507 and 515-519: from the download's return to the await on send
OnDownloadReturn(rq, resp, t, write_ok) ==
    LET img_data == ImgDataOf(resp)
        got == [rq EXCEPT !.log = Append(@, "download_ok")]
    IN  IF img_data = None \/ img_data = "" THEN DownloadFailed(rq)
        ELSE IF ProcessRaises(img_data) THEN Report(got, "annotate_fail", "process_failed")
        ELSE IF ~write_ok
        THEN Report([got EXCEPT !.log = Append(@, "annotate_ok")],
                    "write_fail", "process_failed")
        ELSE [got EXCEPT !.pc = "sending",
                         !.log = @ \o <<"annotate_ok", "write_ok", "send">>,
                         !.temp_file = TempFileName(t, FormatOf(img_data))]

\* lines 507-519: from the return of the send to the handler's end
\* file_bytes is what the host read from the temp file and sent
OnSendReturn(rq, file_bytes, send_ok, remove_ok) ==
    IF send_ok
    THEN [rq EXCEPT !.pc = "done",
                    !.log = @ \o <<"send_ok",
                                   IF remove_ok THEN "remove_ok" ELSE "remove_fail">>,
                    !.sent = file_bytes,
                    !.stopped = TRUE]
    ELSE Report(rq, "send_fail", "process_failed")

\* the messages a handler is run on: message_str is the prefix followed by
\* body when prefixed, and some other text when not
Messages ==
    {[prefixed |-> FALSE, body |-> <<"hi">>, reply |-> "reply"]}
    \cup {[prefixed |-> TRUE, body |-> b, reply |-> "reply"] :
            b \in {<<>>, <<" ">>, <<" ", "red", " ">>, <<" ", "hahahaha">>,
                   <<" ", "hi", " ", "6666">>}}
    \cup {[prefixed |-> TRUE, body |-> <<" ", "hi", " ", "red">>, reply |-> k] :
            k \in {"none", "reply"}}

GetMsgAnswers == {"image", "no_image", "image_without_url", "exception"}
DownloadResponses ==
    {"png", "jpeg", "gif", "garbage", "empty", "non200", "exception"}

WriteFile(files, path, bytes) ==
    [p \in DOMAIN files \cup {path} |-> IF p = path THEN bytes ELSE files[p]]

RemoveFile(files, path) == [p \in DOMAIN files \ {path} |-> files[p]]

Receive(r) ==
    /\ req[r].pc = "idle"
    /\ \E m \in Messages : req' = [req EXCEPT ![r] = OnMessageEnter(self, @, m)]
    /\ UNCHANGED <<now, temp_files, config, self, ParseVars, DrawVars, SweepVars>>

GetMsgReturn(r) ==
    /\ req[r].pc = "locating"
    /\ \E answer \in GetMsgAnswers :
           req' = [req EXCEPT ![r] = OnGetMsgReturn(@, answer)]
    /\ UNCHANGED <<now, temp_files, config, self, ParseVars, DrawVars, SweepVars>>

DownloadReturn(r) ==
    /\ req[r].pc = "downloading"
    /\ \E resp \in DownloadResponses, write_ok \in BOOLEAN :
           LET rq == OnDownloadReturn(req[r], resp, now, write_ok)
           IN  /\ req' = [req EXCEPT ![r] = rq]
               /\ temp_files' = IF rq.pc = "sending"
                                THEN WriteFile(temp_files, rq.temp_file, r)
                                ELSE temp_files
    /\ UNCHANGED <<now, config, self, ParseVars, DrawVars, SweepVars>>

\* the host reads the file while it sends; os.remove follows a send that
\* returned, and raises when the file is gone or cannot be removed
SendReturn(r) ==
    /\ req[r].pc = "sending"
    /\ LET path == req[r].temp_file
           there == path \in DOMAIN temp_files
       IN  \E send_ok, remove_ok \in BOOLEAN :
               /\ send_ok => there
               /\ remove_ok => send_ok
               /\ req' = [req EXCEPT ![r] =
                     OnSendReturn(@, IF there THEN temp_files[path] ELSE 0,
                                  send_ok, remove_ok)]
               /\ temp_files' = IF send_ok /\ remove_ok
                                THEN RemoveFile(temp_files, path)
                                ELSE temp_files
    /\ UNCHANGED <<now, config, self, ParseVars, DrawVars, SweepVars>>

\* a millisecond passes
Tick ==
    /\ now < MaxClock
    /\ now' = now + 1
    /\ UNCHANGED <<req, temp_files, config, self, ParseVars, DrawVars, SweepVars>>

ReqIdle == now = 0 /\ req = [r \in Requests |-> IdleRequest] /\ temp_files = <<>>

----------------------------------------------------------------------------
(* The sweep, src/main.py:118-151. Time is time.time() in seconds; the      *)
(* temp directory maps a file name to the file's mtime.                     *)

MaxFiles == 2
MaxDays == 3
Day == 86400

FileNames == 1..MaxFiles
MaxSweepTime == MaxDays * Day

\* line 126
MaxAge(s) == s.cleanup_days * 24 * 60 * 60

\* lines 132-133
Expired(s, files, name, t) == t - files[name] > MaxAge(s)

\* a mutant of the loop in which a failed os.remove ends the pass
RECURSIVE CleanupAbortsOnFailure(_, _, _, _, _)
CleanupAbortsOnFailure(s, files, t, listing, fails) ==
    IF listing = <<>> THEN [files |-> files, failed |-> {}, cleaned_count |-> 0]
    ELSE LET name == Head(listing)
         IN  IF ~Expired(s, files, name, t)
             THEN CleanupAbortsOnFailure(s, files, t, Tail(listing), fails)
             ELSE IF name \in fails
                  THEN [files |-> files, failed |-> {name}, cleaned_count |-> 0]
                  ELSE LET rest == CleanupAbortsOnFailure(s,
                                       [n \in DOMAIN files \ {name} |-> files[n]],
                                       t, Tail(listing), fails)
                       IN  [rest EXCEPT !.cleaned_count = @ + 1]

\* lines 129-138: the loop over os.listdir(temp_dir), in the order `listing`;
\* os.remove raises on the files in `fails` (only a file that is removed can
\* fail). Answers the directory after the
\* pass, the files whose removal failed (each logged) and cleaned_count.
RECURSIVE CleanupLoop(_, _, _, _, _)
CleanupLoop(s, files, t, listing, fails) ==
    IF listing = <<>> THEN [files |-> files, failed |-> {}, cleaned_count |-> 0]
    ELSE LET name == Head(listing)
             rest == CleanupLoop(s, files, t, Tail(listing), fails)
         IN  IF ~Expired(s, files, name, t) THEN rest
             ELSE IF name \in fails
                  THEN [rest EXCEPT !.failed = @ \cup {name}]
                  ELSE [rest EXCEPT !.files = [n \in DOMAIN @ \ {name} |-> @[n]],
                                    !.cleaned_count = @ + 1]

_cleanup_old_files(s, files, t, listing, fails) ==
    CleanupLoop(s, files, t, listing, fails)

\* the orders a set of names can be listed in
OrdersOf(names) ==
    {l \in [1..Cardinality(names) -> names] :
        \A i, j \in DOMAIN l : l[i] = l[j] => i = j}

\* The orders os.listdir may list the directory in. The loop passes over a
\* file that is not expired without doing anything, so every order of the
\* expired files is taken and the other files follow in one order.
Listings(s, files, t) ==
    LET old == {n \in DOMAIN files : Expired(s, files, n, t)}
        others == CHOOSE l \in OrdersOf(DOMAIN files \ old) : TRUE
    IN  {l \o others : l \in OrdersOf(old)}

\* one pass, at start-up (line 114) or when the loop's sleep returns (line 151)
Pass(files, t, log) ==
    \E listing \in Listings(self, files, t),
       fails \in SUBSET {n \in DOMAIN files : Expired(self, files, n, t)} :
        LET out == _cleanup_old_files(self, files, t, listing, fails)
        IN  /\ sweep_files' = out.files
            /\ sweep_log' = [failed |-> out.failed,
                             cleaned |-> out.cleaned_count > 0,
                             passes |-> (log.passes + 1) % 2]

\* lines 148-151: asyncio.sleep returns and the loop runs a pass
CleanupLoopWake ==
    /\ Pass(sweep_files, sweep_now, sweep_log)
    /\ UNCHANGED <<sweep_now, config, self, ParseVars, DrawVars, ReqVars>>

\* a day passes
Advance ==
    /\ sweep_now < MaxSweepTime
    /\ sweep_now' = sweep_now + Day
    /\ UNCHANGED <<sweep_files, sweep_log, config, self, ParseVars, DrawVars, ReqVars>>

\* lines 502-504: a request writes its temp file
RequestWrites ==
    /\ \E name \in FileNames \ DOMAIN sweep_files :
           sweep_files' = [n \in DOMAIN sweep_files \cup {name} |->
                              IF n = name THEN sweep_now ELSE sweep_files[n]]
    /\ UNCHANGED <<sweep_now, sweep_log, config, self, ParseVars, DrawVars, ReqVars>>

\* lines 510-511: the request removes the file it has just written
RequestRemoves ==
    /\ \E name \in DOMAIN sweep_files :
           /\ sweep_files[name] = sweep_now
           /\ sweep_files' = [n \in DOMAIN sweep_files \ {name} |-> sweep_files[n]]
    /\ UNCHANGED <<sweep_now, sweep_log, config, self, ParseVars, DrawVars, ReqVars>>

SweepIdle ==
    /\ sweep_now = 0
    /\ sweep_files = <<>>
    /\ sweep_log = [failed |-> {}, cleaned |-> FALSE, passes |-> 0]

----------------------------------------------------------------------------
(* Placement and stroke, _add_text_to_image, src/main.py:242-294.           *)
(* The ratios 0.15, 0.50, 0.85, the size fractions and 0.04 are hundredths; *)
(* int() truncates toward zero.                                             *)

Max(a, b) == IF a >= b THEN a ELSE b
Min(a, b) == IF a <= b THEN a ELSE b

\* int(n / 100) for an integer n, truncating toward zero as Python's int()
IntOfHundredths(n) == IF n >= 0 THEN n \div 100 ELSE -((-n) \div 100)

MIN_FONT_SIZE == 12
MAX_FONT_SIZE == 200
MIN_PADDING == 8
PADDING_PERCENT == 4
DEFAULT_SIZE_PERCENT == 8

\* lines 250-251
FontSize(img_width, size) ==
    LET percent == IF size \in DOMAIN SIZE_MAP THEN SIZE_MAP[size]
                   ELSE DEFAULT_SIZE_PERCENT
    IN  Max(MIN_FONT_SIZE, Min(IntOfHundredths(img_width * percent), MAX_FONT_SIZE))

\* line 273
Padding(img_width, img_height) ==
    Max(MIN_PADDING, IntOfHundredths(Min(img_width, img_height) * PADDING_PERCENT))

\* a mutant that clamps against the far edge only
PlaceAxisNoLowerClamp(img_extent, ratio, text_extent, padding) ==
    LET v == IntOfHundredths(img_extent * ratio - 100 * (text_extent \div 2))
        max_v == Max(padding, img_extent - text_extent - padding)
    IN  Min(v, max_v)

\* lines 269-270 and 274-277 on one axis: the origin centred on the anchor,
\* then clamped
PlaceAxis(img_extent, ratio, text_extent, padding) ==
    LET v == IntOfHundredths(img_extent * ratio - 100 * (text_extent \div 2))
        max_v == Max(padding, img_extent - text_extent - padding)
    IN  Max(padding, Min(v, max_v))

\* lines 223-229
_get_stroke_color(text_color) ==
    IF text_color \in {"white", "yellow", "pink"} THEN "#000000" ELSE "#FFFFFF"

\* a mutant that asks auto_stroke before the explicit stroke
StrokeChoiceAutoFirst(s, color, stroke_color) ==
    IF s.auto_stroke
    THEN [fill |-> _get_stroke_color(color), width |-> s.stroke_width]
    ELSE IF stroke_color # None /\ stroke_color # ""
    THEN [fill |-> IF stroke_color \in DOMAIN STROKE_MAP THEN STROKE_MAP[stroke_color]
                   ELSE stroke_color,
          width |-> s.stroke_width]
    ELSE [fill |-> None, width |-> 0]

\* lines 283-292: the stroke_fill and stroke_width handed to draw.text
StrokeChoice(s, color, stroke_color) ==
    IF stroke_color # None /\ stroke_color # ""
    THEN [fill |-> IF stroke_color \in DOMAIN STROKE_MAP THEN STROKE_MAP[stroke_color]
                   ELSE stroke_color,
          width |-> s.stroke_width]
    ELSE IF s.auto_stroke
    THEN [fill |-> _get_stroke_color(color), width |-> s.stroke_width]
    ELSE [fill |-> None, width |-> 0]

\* a: the image's size, the text's bounding box (from the font) and the
\* request's color, size, position and stroke
_add_text_to_image(s, a) ==
    LET position_key == _normalize_position(a.position)
        padding == Padding(a.img_width, a.img_height)
        stroke == StrokeChoice(s, a.color, a.stroke_color)
    IN  [font_size |-> FontSize(a.img_width, a.size),
         x |-> PlaceAxis(a.img_width, POSITION_MAP[position_key][1],
                         a.text_width, padding),
         y |-> PlaceAxis(a.img_height, POSITION_MAP[position_key][2],
                         a.text_height, padding),
         fill_color |-> IF a.color \in DOMAIN COLOR_MAP THEN COLOR_MAP[a.color]
                        ELSE "#FFFFFF",
         stroke_fill |-> stroke.fill,
         stroke_width |-> stroke.width]

MaxDimSteps == 6
DimStep == 47
MaxTextSteps == 7
TextStep == 41

ImageExtents == {k * DimStep : k \in 1..MaxDimSteps}
TextExtents == {k * TextStep : k \in 0..MaxTextSteps}

GeometryInputs ==
    {[img_width |-> w, img_height |-> h, text_width |-> tw, text_height |-> th,
      color |-> "white", size |-> "medium_font", position |-> p,
      stroke_color |-> None] :
        w \in ImageExtents, h \in ImageExtents, tw \in TextExtents,
        th \in TextExtents, p \in DOMAIN POSITION_MAP}

StrokeInputs ==
    {[img_width |-> w, img_height |-> w, text_width |-> TextStep,
      text_height |-> TextStep, color |-> c, size |-> z,
      position |-> "bottom_center", stroke_color |-> k] :
        w \in ImageExtents, c \in DOMAIN COLOR_MAP \cup {"orange"},
        z \in DOMAIN SIZE_MAP \cup {"huge_font"},
        k \in DOMAIN STROKE_MAP \cup {None}}

DrawConfigs ==
    {BaseConfig} \cup {With(BaseConfig, "auto_stroke", a) : a \in BOOLEAN}

AddTextToImage ==
    /\ img = <<>>
    /\ \E a \in GeometryInputs \cup StrokeInputs :
        /\ img' = <<a>>
        /\ drawn' = <<_add_text_to_image(self, a)>>
        /\ UNCHANGED <<config, self, ParseVars, ReqVars, SweepVars>>

----------------------------------------------------------------------------
(* SpecParse: a constructed plugin resolving argument strings *)

MaxTokens == 3

ParseTokens ==
    {"red", "blue", "large_font", "top", "top_center", "left_bottom",
     "black_stroke", "hi", "666"}

TokenSeqs == UNION {[1..n -> ParseTokens] : n \in 0..MaxTokens}

\* the argument string whose tokens are ps, one whitespace run between two
RECURSIVE Spaced(_)
Spaced(ps) ==
    IF Len(ps) <= 1 THEN ps ELSE <<Head(ps), " ">> \o Spaced(Tail(ps))

PositionStrings ==
    DOMAIN POSITION_MAP \cup DOMAIN POSITION_ALIAS_MAP
        \cup {"", "nowhere", "red", "Top"}

ParseConfigs ==
    {BaseConfig}
    \cup {With(With(BaseConfig, "default_color", c), "default_size", z) :
            c \in {"white", "red", "orange"}, z \in {"large_font", "huge_font"}}
    \cup {With(BaseConfig, "default_position", p) : p \in PositionStrings}
    \cup {With(With(BaseConfig, "default_color", "orange"),
               "default_position", "nowhere")}

ParseArgs ==
    /\ result = <<>>
    /\ \E ps \in TokenSeqs :
        /\ parts' = Split(Strip(Spaced(ps)))
        /\ result' = <<_parse_args(self, Spaced(ps))>>
        /\ UNCHANGED <<config, self, DrawVars, ReqVars, SweepVars>>

----------------------------------------------------------------------------
(* The specifications *)

InitParse ==
    /\ config \in ParseConfigs
    /\ self = __init__(config)
    /\ ParseIdle /\ DrawIdle /\ ReqIdle /\ SweepIdle

NextParse == ParseArgs

SpecParse == InitParse /\ [][NextParse]_vars

InitDraw ==
    /\ config \in DrawConfigs
    /\ self = __init__(config)
    /\ ParseIdle /\ DrawIdle /\ ReqIdle /\ SweepIdle

NextDraw == AddTextToImage

SpecDraw == InitDraw /\ [][NextDraw]_vars

\* the request machine: NumRequests handlers interleaved at their awaits
Init ==
    /\ config = With(BaseConfig, "max_text_length", ReqMaxTextLength)
    /\ self = __init__(config)
    /\ ParseIdle /\ DrawIdle /\ ReqIdle /\ SweepIdle

Next ==
    \/ Tick
    \/ \E r \in Requests : Receive(r)
    \/ \E r \in Requests : GetMsgReturn(r)
    \/ \E r \in Requests : DownloadReturn(r)
    \/ \E r \in Requests : SendReturn(r)

Spec == Init /\ [][Next]_vars

\* the files a start of the plugin may find: written now, or long ago
OldAge == MaxDays * Day

PreExisting ==
    UNION {[names -> {0, -OldAge}] : names \in SUBSET FileNames}

SweepConfigs ==
    {BaseConfig} \cup {With(BaseConfig, "cleanup_days", d) : d \in 0..1}

\* the state after __init__, which runs one pass itself (line 114)
InitSweep ==
    /\ config \in SweepConfigs
    /\ self = __init__(config)
    /\ ParseIdle /\ DrawIdle /\ ReqIdle
    /\ sweep_now = 0
    /\ \E pre \in PreExisting :
         \E listing \in Listings(self, pre, 0),
            fails \in SUBSET {n \in DOMAIN pre : Expired(self, pre, n, 0)} :
            LET out == _cleanup_old_files(self, pre, 0, listing, fails)
            IN  /\ sweep_files = out.files
                /\ sweep_log = [failed |-> out.failed,
                                cleaned |-> out.cleaned_count > 0, passes |-> 1]

NextSweep ==
    \/ CleanupLoopWake
    \/ Advance
    \/ RequestWrites
    \/ RequestRemoves

SpecSweep == InitSweep /\ [][NextSweep]_vars

\* _cleanup_loop wakes every 24 hours for as long as the plugin runs
FairSweep == SpecSweep /\ WF_vars(CleanupLoopWake)

----------------------------------------------------------------------------
(* Claims about the parameter resolver, checked under SpecParse *)

Parsed == result # <<>>

IsVocabulary(t) ==
    t \in DOMAIN COLOR_MAP \cup DOMAIN SIZE_MAP \cup DOMAIN POSITION_MAP
            \cup DOMAIN POSITION_ALIAS_MAP \cup DOMAIN STROKE_MAP

CaptionTokens(ps) == SelectSeq(ps, LAMBDA t : ~IsVocabulary(t))

\* the rearrangements of ps that keep its caption tokens in their order
Rearrangements(ps) ==
    LET n == Len(ps)
        perms == {f \in [1..n -> 1..n] : \A i, j \in 1..n : f[i] = f[j] => i = j}
        all == {[i \in 1..n |-> ps[f[i]]] : f \in perms}
    IN  {q \in all : CaptionTokens(q) = CaptionTokens(ps)}

\* the vocabulary a token belongs to and the value it resolves to
KindOf(t) ==
    IF t \in DOMAIN COLOR_MAP THEN "color"
    ELSE IF t \in DOMAIN SIZE_MAP THEN "size"
    ELSE IF t \in DOMAIN POSITION_MAP \cup DOMAIN POSITION_ALIAS_MAP THEN "position"
    ELSE IF t \in DOMAIN STROKE_MAP THEN "stroke"
    ELSE "caption"

AnchorOf(t) ==
    IF t \in DOMAIN POSITION_ALIAS_MAP THEN POSITION_ALIAS_MAP[t] ELSE t

\* no vocabulary is given two different values
SingleValued(ps) ==
    \A i, j \in 1..Len(ps) :
        KindOf(ps[i]) = KindOf(ps[j]) /\ KindOf(ps[i]) # "caption"
            => AnchorOf(ps[i]) = AnchorOf(ps[j])

\* C3, as claimed: every rearrangement of the tokens that keeps the caption
\* tokens in their order resolves to the same color, size, position, stroke and
\* text, also when a vocabulary occurs several times.
C3_OrderIndependent ==
    Parsed => \A q \in Rearrangements(parts) :
                  _parse_args(self, Spaced(q)) = result[1]

\* C3, amended: the same, for token sequences that give no vocabulary two
\* different values (of several tokens of one vocabulary the last one wins).
C3_OrderIndependentSingleValued ==
    Parsed /\ SingleValued(parts) =>
        \A q \in Rearrangements(parts) :
            _parse_args(self, Spaced(q)) = result[1]

\* an alias and its anchor around a caption token, and a rearrangement
C3_Witness ==
    /\ Parsed
    /\ parts = <<"top", "hi", "top_center">>
    /\ result[1].text = "hi"
    /\ result[1].position = "top_center"
    /\ <<"top_center", "top", "hi">> \in Rearrangements(parts)

\* C7, as claimed: whatever the configuration, the resolved position is one of
\* the nine anchors and the resolved color one of the eight color names.
C7_PositionAndColorValid ==
    Parsed => /\ result[1].position \in DOMAIN POSITION_MAP
              /\ result[1].color \in DOMAIN COLOR_MAP

HasColorToken(ps) == \E i \in 1..Len(ps) : ps[i] \in DOMAIN COLOR_MAP

\* C7, amended: the resolved position is always one of the nine anchors; the
\* resolved color is one of the eight names when the arguments hold a color
\* token or default_color is one of them, and is default_color as configured
\* otherwise.
C7_PositionValidColorValidOrDefault ==
    Parsed =>
        /\ result[1].position \in DOMAIN POSITION_MAP
        /\ HasColorToken(parts) \/ self.default_color \in DOMAIN COLOR_MAP
              => result[1].color \in DOMAIN COLOR_MAP
        /\ ~HasColorToken(parts) => result[1].color = self.default_color

C7_Witness ==
    /\ Parsed
    /\ "default_position" \in DOMAIN config /\ config.default_position = "nowhere"
    /\ "default_color" \in DOMAIN config /\ config.default_color = "orange"
    /\ parts = <<"hi">>
    /\ result[1].position = "bottom_center"
    /\ result[1].color = "orange"

\* C10: _normalize_position leaves an anchor as it is, maps an alias to its
\* anchor, answers an anchor for every string, and applied to its own answer
\* changes nothing. The strings are the configured default_position, which
\* __init__ normalizes, and the resolved position of a request, which
\* _add_text_to_image normalizes once more.
C10_NormalizeIdempotent ==
    LET p == Get(config, "default_position", "bottom")
        once == self.default_position
    IN  /\ once \in DOMAIN POSITION_MAP
        /\ p \in DOMAIN POSITION_MAP => once = p
        /\ p \in DOMAIN POSITION_ALIAS_MAP => once = POSITION_ALIAS_MAP[p]
        /\ _normalize_position(once) = once
        /\ Parsed => /\ result[1].position \in DOMAIN POSITION_MAP
                     /\ _normalize_position(result[1].position) = result[1].position

C10_Witness ==
    /\ Parsed
    /\ "default_position" \in DOMAIN config
    /\ config.default_position = "left_bottom"
    /\ self.default_position = "bottom_left"
    /\ parts = <<"hi">>
    /\ result[1].position = "bottom_left"

----------------------------------------------------------------------------
(* Claims about _add_text_to_image, checked under SpecDraw *)

Drawn == drawn # <<>>

\* the inset margin as the claim states it: max(8, floor(0.04 * min(W, H)))
ClaimedPadding(a) ==
    LET m == IF a.img_width <= a.img_height THEN a.img_width ELSE a.img_height
        f == (4 * m) \div 100
    IN  IF f > 8 THEN f ELSE 8

\* C8: the draw origin is at least padding on both axes; on an axis where the
\* text fits between the margins the box ends at or before the far margin; on
\* an axis where it does not fit the origin is exactly padding.
C8_OriginWithinMargin ==
    Drawn =>
        LET a == img[1]
            d == drawn[1]
            padding == ClaimedPadding(a)
        IN  /\ d.x >= padding /\ d.y >= padding
            /\ a.text_width <= a.img_width - 2 * padding
                  => d.x + a.text_width <= a.img_width - padding
            /\ a.text_height <= a.img_height - 2 * padding
                  => d.y + a.text_height <= a.img_height - padding
            /\ a.text_width > a.img_width - 2 * padding => d.x = padding
            /\ a.text_height > a.img_height - 2 * padding => d.y = padding

\* an image whose margin is above 8, with a text too wide for it but not too
\* high, anchored where the centred origin would leave the canvas to the left
C8_Witness ==
    /\ Drawn
    /\ ClaimedPadding(img[1]) > 8
    /\ img[1].text_width > img[1].img_width - 2 * ClaimedPadding(img[1])
    /\ img[1].text_height <= img[1].img_height - 2 * ClaimedPadding(img[1])
    /\ img[1].position = "bottom_left"
    /\ drawn[1].x = ClaimedPadding(img[1])
    /\ drawn[1].y > ClaimedPadding(img[1])

\* C9: an explicit stroke token's color is the stroke whatever auto_stroke
\* says; without one and with auto_stroke on, the stroke is black for the text
\* colors white, yellow and pink and white for every other text color; without
\* one and with auto_stroke off, the text is drawn with no stroke.
C9_StrokeChoice ==
    Drawn =>
        LET a == img[1]
            d == drawn[1]
        IN  /\ a.stroke_color = "white_stroke" => d.stroke_fill = "#FFFFFF"
            /\ a.stroke_color = "black_stroke" => d.stroke_fill = "#000000"
            /\ a.stroke_color = None /\ self.auto_stroke =>
                  d.stroke_fill = IF a.color \in {"white", "yellow", "pink"}
                                  THEN "#000000" ELSE "#FFFFFF"
            /\ a.stroke_color = None /\ ~self.auto_stroke =>
                  d.stroke_fill = None /\ d.stroke_width = 0

\* red text, no stroke token, auto_stroke left at its default: a white stroke
C9_Witness ==
    /\ Drawn
    /\ "auto_stroke" \notin DOMAIN config
    /\ img[1].color = "red" /\ img[1].stroke_color = None
    /\ drawn[1].stroke_fill = "#FFFFFF"
    /\ drawn[1].fill_color = "#FF0000"

----------------------------------------------------------------------------
(* Claims about on_message, checked under Spec *)

LogHas(r, entry) == \E i \in 1..Len(req[r].log) : req[r].log[i] = entry

\* the caption of an argument body, read off the body's tokens
CaptionOf(body) == Join(CaptionTokens(Split(body)))

\* the bodies C1 is about
C1_Rejectable(body) ==
    \/ Split(body) = <<>>
    \/ CaptionOf(body) = ""
    \/ Len(CaptionOf(body)) > self.max_text_length

\* C1: a prefix-matched message whose argument body is empty, whose caption
\* is empty or whose caption is longer than max_text_length is answered with
\* one error message and ends at once: no get_msg, no download, no annotation
\* and no temp file at any time.
C1_RejectedBeforeIO ==
    \A r \in Requests :
        req[r].pc # "idle" /\ req[r].msg.prefixed /\ C1_Rejectable(req[r].msg.body)
            => /\ req[r].pc = "done"
               /\ req[r].log = <<>>
               /\ req[r].temp_file = <<>>
               /\ Len(req[r].replies) = 1
               /\ req[r].replies[1] \in {"usage", "no_text", "too_long"}
               /\ req[r].stopped

\* a caption of two short tokens that is too long once joined, rejected
\* while the other request is in the middle of its I/O
C1_Witness ==
    \E r, o \in Requests :
        /\ req[r].msg.body = <<" ", "hi", " ", "6666">>
        /\ req[r].replies = <<"too_long">>
        /\ req[r].log = <<>>
        /\ req[o].pc = "sending"

\* the place of a log entry in a request's run
StageRank(entry) ==
    CASE entry = "get_msg" -> 1
      [] entry \in {"locate_ok", "locate_none"} -> 2
      [] entry = "download" -> 3
      [] entry \in {"download_ok", "download_fail"} -> 4
      [] entry \in {"annotate_ok", "annotate_fail"} -> 5
      [] entry \in {"write_ok", "write_fail"} -> 6
      [] entry = "send" -> 7
      [] entry \in {"send_ok", "send_fail"} -> 8
      [] entry \in {"remove_ok", "remove_fail"} -> 9

FailureEntries ==
    {"locate_none", "download_fail", "annotate_fail", "write_fail", "send_fail"}

ErrorReplies == {"no_image", "download_failed", "process_failed"}

\* C2: the stages run in the order locate, download, annotate, send, each at
\* most once; a download starts only after a URL was found, annotation only
\* after bytes were downloaded, a send only after annotation succeeded; a
\* failed stage is the last thing the request does: it is reported and the
\* request is over.
C2_StagesInOrderNoRetry ==
    \A r \in Requests :
        LET log == req[r].log
        IN  /\ \A i, j \in 1..Len(log) : i < j => StageRank(log[i]) < StageRank(log[j])
            /\ LogHas(r, "download") => LogHas(r, "locate_ok")
            /\ LogHas(r, "annotate_ok") \/ LogHas(r, "annotate_fail")
                  => LogHas(r, "download_ok")
            /\ LogHas(r, "send") => LogHas(r, "annotate_ok")
            /\ \A i \in 1..Len(log) :
                  log[i] \in FailureEntries
                      => /\ i = Len(log)
                         /\ req[r].pc = "done"
                         /\ req[r].stopped
                         /\ req[r].replies # <<>>
                         /\ req[r].replies[Len(req[r].replies)] \in ErrorReplies

\* one request through all four stages, the other stopped by a failed download
C2_Witness ==
    \E r, o \in Requests :
        /\ req[r].log = <<"get_msg", "locate_ok", "download", "download_ok",
                          "annotate_ok", "write_ok", "send", "send_ok", "remove_ok">>
        /\ req[r].sent = r
        /\ req[o].log = <<"get_msg", "locate_ok", "download", "download_fail">>
        /\ req[o].replies = <<"processing", "download_failed">>
        /\ req[o].pc = "done"

\* C4, as claimed: a request that wrote a temp file and handed it to the
\* host's send has, when it ends, tried to delete the file, however the send
\* went; so the file is still there only if that removal failed.
C4_RemovalAttemptedAfterSend ==
    \A r \in Requests :
        req[r].pc = "done" /\ LogHas(r, "send")
            => /\ LogHas(r, "remove_ok") \/ LogHas(r, "remove_fail")
               /\ req[r].temp_file \in DOMAIN temp_files => LogHas(r, "remove_fail")

\* C6, as claimed: two requests waiting on their sends hold different temp
\* file paths, each one's file is there with the bytes it wrote, and a request
\* sends the bytes it wrote.
C6_TempPathsDistinct ==
    /\ \A r, o \in Requests :
          r # o /\ req[r].pc = "sending" /\ req[o].pc = "sending"
              => req[r].temp_file # req[o].temp_file
    /\ \A r \in Requests :
          req[r].pc = "sending"
              => /\ req[r].temp_file \in DOMAIN temp_files
                 /\ temp_files[req[r].temp_file] = r
    /\ \A r \in Requests : req[r].sent # 0 => req[r].sent = r

----------------------------------------------------------------------------
(* Claims about the sweep, checked under FairSweep *)

FileExpired(n) ==
    n \in DOMAIN sweep_files /\ Expired(self, sweep_files, n, sweep_now)

\* C5, as claimed: with the sweep scheduled fairly, every file older than
\* cleanup_days days is eventually deleted.
C5_ExpiredEventuallyDeleted ==
    \A n \in FileNames : FileExpired(n) ~> (n \notin DOMAIN sweep_files)

\* a step of the sweep: one more pass made
PassStep == sweep_log'.passes # sweep_log.passes

\* C5, amended: every pass tries to delete every file older than cleanup_days
\* days, whatever happens to the other files of the pass, and deletes each one
\* whose removal does not fail; with the sweep scheduled fairly such a file is
\* therefore eventually deleted or has its removal fail in a later pass (it
\* stays for as long as its removal fails).
C5_ExpiredDeletedUnlessRemovalFails ==
    /\ [][PassStep =>
            \A n \in FileNames :
                FileExpired(n) =>
                    \/ n \notin DOMAIN sweep_files'
                    \/ n \in sweep_log'.failed /\ sweep_files'[n] = sweep_files[n]]_vars
    /\ \A n \in FileNames :
          FileExpired(n) ~> (n \notin DOMAIN sweep_files \/ n \in sweep_log.failed)

\* a periodic pass that deleted one expired file although the removal of
\* another one failed
C5_Witness ==
    /\ sweep_now > 0
    /\ sweep_log.cleaned
    /\ \E n \in FileNames : sweep_log.failed = {n} /\ FileExpired(n)

====
